---- MODULE Spec2Model ----
(***************************************************************************)
(* Model of src/app/lib/actions.ts: the server actions createInvoice (both *)
(* definitions of the file), updateInvoice and deleteInvoice, the zod      *)
(* schema that validates their form, the number arithmetic that turns the  *)
(* amount into cents, and the collaborators they drive: the invoices table *)
(* behind sql, the page cache behind revalidatePath, and redirect.         *)
(***************************************************************************)
EXTENDS Integers, Sequences, FiniteSets, TLC

(***************************************************************************)
(* Numbers.  A JavaScript number is an IEEE-754 double.  Its significand   *)
(* (up to 53 bits) does not fit a TLC integer, so a significand is kept as *)
(* a little-endian sequence of limbs in base 2^15.  Exponent range,        *)
(* subnormals and infinities are left out: the amounts below stay far from *)
(* them.                                                                   *)
(***************************************************************************)
LimbBits == 15

MantBits == 53

RECURSIVE Pow2(_)
Pow2(n) == IF n = 0 THEN 1 ELSE 2 * Pow2(n - 1)

Base == Pow2(LimbBits)

RECURSIVE Pow10(_)
Pow10(n) == IF n = 0 THEN 1 ELSE 10 * Pow10(n - 1)

RECURSIVE BigFromInt(_)
BigFromInt(n) == IF n = 0 THEN <<>> ELSE <<n % Base>> \o BigFromInt(n \div Base)

RECURSIVE BigMulSmallC(_, _, _)
BigMulSmallC(b, c, carry) ==
    IF b = <<>> THEN BigFromInt(carry)
    ELSE LET p == Head(b) * c + carry
         IN  <<p % Base>> \o BigMulSmallC(Tail(b), c, p \div Base)

BigMulSmall(b, c) == BigMulSmallC(b, c, 0)

RECURSIVE BigTrim(_)
BigTrim(b) ==
    IF b = <<>> THEN <<>>
    ELSE IF b[Len(b)] = 0 THEN BigTrim(SubSeq(b, 1, Len(b) - 1)) ELSE b

\* Short division from the top limb down: [q |-> b \div c, r |-> b % c].
RECURSIVE BigDivSmallAt(_, _, _, _)
BigDivSmallAt(b, c, i, rem) ==
    IF i = 0 THEN [q |-> <<>>, r |-> rem]
    ELSE LET cur  == rem * Base + b[i]
             rest == BigDivSmallAt(b, c, i - 1, cur % c)
         IN  [q |-> rest.q \o <<cur \div c>>, r |-> rest.r]

BigDivSmall(b, c) ==
    LET d == BigDivSmallAt(b, c, Len(b), 0)
    IN  [q |-> BigTrim(d.q), r |-> d.r]

RECURSIVE BigInc(_)
BigInc(b) ==
    IF b = <<>> THEN <<1>>
    ELSE IF Head(b) + 1 < Base THEN <<Head(b) + 1>> \o Tail(b)
         ELSE <<0>> \o BigInc(Tail(b))

RECURSIVE IntBitLen(_)
IntBitLen(n) == IF n = 0 THEN 0 ELSE 1 + IntBitLen(n \div 2)

BigBitLen(b) ==
    IF b = <<>> THEN 0 ELSE (Len(b) - 1) * LimbBits + IntBitLen(b[Len(b)])

BigIsOdd(b) == b # <<>> /\ Head(b) % 2 = 1

NaN == [nan |-> TRUE, mant |-> <<>>, exp |-> 0]

\* The double mant * 2^exp in canonical form: an odd significand, or zero.
RECURSIVE Normalize(_, _)
Normalize(m, e) ==
    IF m = <<>> THEN [nan |-> FALSE, mant |-> <<>>, exp |-> 0]
    ELSE IF BigIsOdd(m) THEN [nan |-> FALSE, mant |-> m, exp |-> e]
         ELSE Normalize(BigDivSmall(m, 2).q, e + 1)

\* Round to nearest, ties to even: quotient q with remainder r of a
\* division by d.
RoundHalfEven(q, r, d) ==
    IF 2 * r > d \/ (2 * r = d /\ BigIsOdd(q)) THEN BigInc(q) ELSE q

\* b * 2^s: whole limbs of zeros below, then the remaining bits.
BigShiftLeft(b, s) ==
    BigMulSmall([i \in 1..(s \div LimbBits) |-> 0] \o b, Pow2(s % LimbBits))

\* The least s with b * 2^s >= d.
RECURSIVE ShiftToOne(_, _, _)
ShiftToOne(b, d, s) ==
    IF BigDivSmall(b, d).q # <<>> THEN s
    ELSE ShiftToOne(BigMulSmall(b, 2), d, s + 1)

\* The double nearest to the decimal n / 10^k: the quotient of n * 2^s by
\* 10^k with s chosen so that it has MantBits bits, rounded, times 2^-s.
DecimalToDouble(n, k) ==
    IF n = 0 THEN Normalize(<<>>, 0)
    ELSE LET d  == Pow10(k)
             s0 == ShiftToOne(BigFromInt(n), d, 0)
             b0 == BigShiftLeft(BigFromInt(n), s0)
             s  == s0 + MantBits - BigBitLen(BigDivSmall(b0, d).q)
             qr == BigDivSmall(BigShiftLeft(BigFromInt(n), s), d)
         IN  Normalize(RoundHalfEven(qr.q, qr.r, d), 0 - s)

\* x * c for a small positive integer c, rounded to a double.
DoubleMulSmall(x, c) ==
    IF x.nan THEN NaN
    ELSE LET p    == BigMulSmall(x.mant, c)
             over == BigBitLen(p) - MantBits
         IN  IF over <= 0 THEN Normalize(p, x.exp)
             ELSE LET qr == BigDivSmall(p, Pow2(over))
                  IN  Normalize(RoundHalfEven(qr.q, qr.r, Pow2(over)),
                                x.exp + over)

IsInteger(x) == ~x.nan /\ x.exp >= 0

IntToDouble(n) == Normalize(BigFromInt(n), 0)

(***************************************************************************)
(* Form values.  A form is a function from field names to strings; a field *)
(* the form does not hold is outside its domain, and FormData.get yields   *)
(* null for it.  TLC cannot index a string, so the characters of the       *)
(* amount strings are tabulated.                                           *)
(***************************************************************************)
Get(formData, name) ==
    IF name \in DOMAIN formData
    THEN [null |-> FALSE, str |-> formData[name]]
    ELSE [null |-> TRUE, str |-> ""]

AmountStrings == {"50", "10.5", "1.15", "12.345", "abc"}

Characters(s) ==
    CASE s = "50"     -> <<"5", "0">>
      [] s = "10.5"   -> <<"1", "0", ".", "5">>
      [] s = "1.15"   -> <<"1", ".", "1", "5">>
      [] s = "12.345" -> <<"1", "2", ".", "3", "4", "5">>
      [] s = "abc"    -> <<"a", "b", "c">>
      [] OTHER        -> <<>>

Digits == {"0", "1", "2", "3", "4", "5", "6", "7", "8", "9"}

DigitValue(c) ==
    CASE c = "0" -> 0 [] c = "1" -> 1 [] c = "2" -> 2 [] c = "3" -> 3
      [] c = "4" -> 4 [] c = "5" -> 5 [] c = "6" -> 6 [] c = "7" -> 7
      [] c = "8" -> 8 [] c = "9" -> 9

\* The decimal literal cs read as [ok, n, k]: the value n / 10^k, where k
\* counts the digits after the point.  seen tells whether the point is past.
RECURSIVE ReadDecimal(_, _, _, _)
ReadDecimal(cs, n, k, seen) ==
    IF cs = <<>> THEN [ok |-> TRUE, n |-> n, k |-> k]
    ELSE IF Head(cs) \in Digits
         THEN ReadDecimal(Tail(cs), 10 * n + DigitValue(Head(cs)),
                          IF seen THEN k + 1 ELSE k, seen)
         ELSE IF Head(cs) = "." /\ ~seen
              THEN ReadDecimal(Tail(cs), n, k, TRUE)
              ELSE [ok |-> FALSE, n |-> 0, k |-> 0]

Decimal(s) ==
    LET cs == Characters(s)
    IN  IF \E i \in 1..Len(cs) : cs[i] \in Digits
        THEN ReadDecimal(cs, 0, 0, FALSE)
        ELSE [ok |-> s = "", n |-> 0, k |-> 0]

\* Number(s) of a string: the empty string is +0, a decimal literal is the
\* nearest double, any other string is NaN.
StringToNumber(s) ==
    LET d == Decimal(s)
    IN  IF d.ok THEN DecimalToDouble(d.n, d.k) ELSE NaN

\* StringToNumber, evaluated once per string.
NumberOfString == [s \in AmountStrings |-> StringToNumber(s)]

\* Number(value): null is +0.
ToNumber(value) ==
    IF value.null THEN IntToDouble(0) ELSE NumberOfString[value.str]

(***************************************************************************)
(* FormSchema without id and date: z.string(), z.coerce.number() and       *)
(* z.enum(["pending", "paid"]).parse() collects one issue per failing      *)
(* field and throws when there is any.                                     *)
(***************************************************************************)
StatusValuesLax == {"pending", "paid", "overdue"}

StatusValues == {"pending", "paid"}

ZString(value) == ~value.null

ZCoerceNumber(value) == ~ToNumber(value).nan

ZEnum(value) == ~value.null /\ value.str \in StatusValues

Issues(input) ==
    {f \in {"customerId"} : ~ZString(input.customerId)}
      \cup {f \in {"amount"} : ~ZCoerceNumber(input.amount)}
      \cup {f \in {"status"} : ~ZEnum(input.status)}

NoData == [customerId |-> "", amount |-> NaN, status |-> ""]

Parse(input) ==
    LET issues == Issues(input)
    IN  [issues |-> issues,
         data   |-> IF issues = {}
                    THEN [customerId |-> input.customerId.str,
                          amount     |-> ToNumber(input.amount),
                          status     |-> input.status.str]
                    ELSE NoData]

Hundred == 100

AmountInCents(amount) == DoubleMulSmall(amount, Hundred)

(***************************************************************************)
(* The invoices table behind sql: a set of rows.  The table gives every    *)
(* inserted row a fresh id.                                                *)
(***************************************************************************)
SqlInsert(table, newId, customerId, amountInCents, status, date) ==
    table \cup {[id |-> newId, customer_id |-> customerId,
                 amount |-> amountInCents, status |-> status, date |-> date]}

\* A statement that leaves status out of its SET list.
SqlUpdateNoStatus(table, id, customerId, amountInCents, status) ==
    {IF row.id = id
     THEN [row EXCEPT !.customer_id = customerId, !.amount = amountInCents]
     ELSE row : row \in table}

SqlUpdate(table, id, customerId, amountInCents, status) ==
    {IF row.id = id
     THEN [row EXCEPT !.customer_id = customerId, !.amount = amountInCents,
                      !.status = status]
     ELSE row : row \in table}

\* A statement without its WHERE clause.
SqlDeleteAll(table, id) == {}

SqlDelete(table, id) == {row \in table : row.id # id}

(***************************************************************************)
(* Bounds and inputs.                                                      *)
(***************************************************************************)
MaxReq == 2

MaxId == 2

MaxDay == 2

Requests == 1..MaxReq

Ids == 1..MaxId

FormA == [customerId |-> "c1", amount |-> "50", status |-> "pending"]

FormB == [customerId |-> "c2", amount |-> "10.5", status |-> "paid"]

Without(form, name) == [f \in DOMAIN form \ {name} |-> form[f]]

\* The two complete forms, and FormA with one field left out or replaced.
Forms ==
    {FormA, FormB}
      \cup {Without(FormA, f) : f \in DOMAIN FormA}
      \cup {[FormA EXCEPT !.amount = a] : a \in {"1.15", "12.345", "abc"}}
      \cup {[FormA EXCEPT !.status = "overdue"]}

TwoForms == {FormA, FormB}

Path == "/dashboard/invoices"

VARIABLES
    rows,      \* the invoices table
    nextId,    \* the id the table gives the next inserted row
    lastStmt,  \* per id, the pending request whose statement last changed that row (0: none)
    today,     \* the current UTC date
    stale,     \* the paths revalidatePath has marked since the last render
    req        \* per request: the handler's position, arguments and events

vars == <<rows, nextId, lastStmt, today, stale, req>>

Idle ==
    [pc |-> "idle", kind |-> "none", id |-> 0, form |-> <<>>, issues |-> {},
     data |-> NoData, amountInCents |-> NaN, date |-> 0, result |-> "none",
     trace |-> <<>>, outcome |-> "none"]

\* An empty table.
Init ==
    /\ rows = {}
    /\ nextId = 1
    /\ lastStmt = [i \in Ids |-> 0]
    /\ today = 1
    /\ stale = {}
    /\ req = [r \in Requests |-> Idle]

\* The table has ids for MaxId rows.
CanInsert == nextId <= MaxId

\* The object both parse calls are given: the three form lookups.
Input(formData) ==
    [customerId |-> Get(formData, "customerId"),
     amount     |-> Get(formData, "amount"),
     status     |-> Get(formData, "status")]

\* A call takes the lowest free request record.
Free(r) == req[r].pc = "idle" /\ \A q \in Requests : q < r => req[q].pc # "idle"

\* parse() threw: the handler ends with the ZodError, nothing else done.
Rejected(kind, id, formData, issues) ==
    [Idle EXCEPT !.pc = "done", !.kind = kind, !.id = id, !.form = formData,
                 !.issues = issues, !.trace = <<"parse">>,
                 !.outcome = "ZodError"]

\* The handler up to its await: the statement is handed to the store.
Awaiting(kind, id, formData, data, date) ==
    [Idle EXCEPT !.pc = "awaiting", !.kind = kind, !.id = id,
                 !.form = formData, !.data = data,
                 !.amountInCents = AmountInCents(data.amount), !.date = date,
                 !.trace = <<"parse", "sql">>]

(***************************************************************************)
(* The handlers, each up to its await, on a form drawn from forms.         *)
(***************************************************************************)
\* The first definition of createInvoice.
createInvoice1(r, forms) ==
    /\ Free(r)
    /\ \E formData \in forms :
         LET p == Parse(Input(formData))
         IN  IF p.issues # {}
             THEN req' = [req EXCEPT ![r] =
                            Rejected("createInvoice1", 0, formData, p.issues)]
             ELSE /\ CanInsert
                  /\ req' = [req EXCEPT ![r] =
                               Awaiting("createInvoice1", 0, formData, p.data, today)]
    /\ UNCHANGED <<rows, nextId, lastStmt, today, stale>>

\* The second definition of createInvoice.
createInvoice(r, forms) ==
    /\ Free(r)
    /\ \E formData \in forms :
         LET p == Parse(Input(formData))
         IN  IF p.issues # {}
             THEN req' = [req EXCEPT ![r] =
                            Rejected("createInvoice", 0, formData, p.issues)]
             ELSE /\ CanInsert
                  /\ req' = [req EXCEPT ![r] =
                               Awaiting("createInvoice", 0, formData, p.data, today)]
    /\ UNCHANGED <<rows, nextId, lastStmt, today, stale>>

updateInvoice(r, forms) ==
    /\ Free(r)
    /\ \E id \in Ids, formData \in forms :
         LET p == Parse(Input(formData))
         IN  IF p.issues # {}
             THEN req' = [req EXCEPT ![r] =
                            Rejected("updateInvoice", id, formData, p.issues)]
             ELSE req' = [req EXCEPT ![r] =
                            Awaiting("updateInvoice", id, formData, p.data, 0)]
    /\ UNCHANGED <<rows, nextId, lastStmt, today, stale>>

deleteInvoice(r) ==
    /\ Free(r)
    /\ \E id \in Ids :
         req' = [req EXCEPT ![r] =
                   [Idle EXCEPT !.pc = "awaiting", !.kind = "deleteInvoice",
                                !.id = id, !.trace = <<"sql">>]]
    /\ UNCHANGED <<rows, nextId, lastStmt, today, stale>>

(***************************************************************************)
(* The store runs the statement a handler awaits, as one atomic statement, *)
(* or fails it (connectivity loss, constraint violation).                  *)
(***************************************************************************)
Settled(q, result) ==
    [q EXCEPT !.pc = "settled", !.result = result,
              !.trace = Append(q.trace, result)]

HasRow(id) == \E row \in rows : row.id = id

SqlRun(r) ==
    /\ req[r].pc = "awaiting"
    /\ LET q == req[r]
       IN  CASE q.kind \in {"createInvoice1", "createInvoice"} ->
                  /\ rows' = SqlInsert(rows, nextId, q.data.customerId,
                                       q.amountInCents, q.data.status, q.date)
                  /\ nextId' = nextId + 1
                  /\ lastStmt' = [lastStmt EXCEPT ![nextId] = r]
             [] q.kind = "updateInvoice" ->
                  /\ rows' = SqlUpdate(rows, q.id, q.data.customerId,
                                       q.amountInCents, q.data.status)
                  /\ nextId' = nextId
                  /\ lastStmt' = IF HasRow(q.id)
                                 THEN [lastStmt EXCEPT ![q.id] = r]
                                 ELSE lastStmt
             [] q.kind = "deleteInvoice" ->
                  /\ rows' = SqlDelete(rows, q.id)
                  /\ nextId' = nextId
                  /\ lastStmt' = IF HasRow(q.id)
                                 THEN [lastStmt EXCEPT ![q.id] = r]
                                 ELSE lastStmt
    /\ req' = [req EXCEPT ![r] = Settled(req[r], "ok")]
    /\ UNCHANGED <<today, stale>>

SqlFail(r) ==
    /\ req[r].pc = "awaiting"
    /\ req' = [req EXCEPT ![r] = Settled(req[r], "error")]
    /\ UNCHANGED <<rows, nextId, lastStmt, today, stale>>

(***************************************************************************)
(* The handlers, each from its await to its end.                           *)
(***************************************************************************)
Done(q, events, outcome) ==
    [q EXCEPT !.pc = "done", !.trace = q.trace \o events, !.outcome = outcome]

\* No try around the await: a rejection leaves the handler at once.
createInvoice1Resume(r) ==
    /\ req[r].pc = "settled" /\ req[r].kind = "createInvoice1"
    /\ IF req[r].result = "error"
       THEN /\ req' = [req EXCEPT ![r] = Done(req[r], <<>>, "PostgresError")]
            /\ stale' = stale
       ELSE /\ req' = [req EXCEPT ![r] =
                         Done(req[r], <<"revalidatePath", "redirect">>, "redirect")]
            /\ stale' = stale \cup {Path}
    /\ UNCHANGED <<rows, nextId, lastStmt, today>>

\* catch (error) { console.error(error) }
Caught(q) == IF q.result = "error" THEN <<"console.error">> ELSE <<>>

createInvoiceResume(r) ==
    /\ req[r].pc = "settled" /\ req[r].kind = "createInvoice"
    /\ req' = [req EXCEPT ![r] =
                 Done(req[r], Caught(req[r]) \o <<"revalidatePath", "redirect">>,
                      "redirect")]
    /\ stale' = stale \cup {Path}
    /\ UNCHANGED <<rows, nextId, lastStmt, today>>

\* redirect moved above revalidatePath.
updateInvoiceResumeSwapped(r) ==
    /\ req[r].pc = "settled" /\ req[r].kind = "updateInvoice"
    /\ req' = [req EXCEPT ![r] =
                 Done(req[r], Caught(req[r]) \o <<"redirect", "revalidatePath">>,
                      "redirect")]
    /\ stale' = stale \cup {Path}
    /\ UNCHANGED <<rows, nextId, lastStmt, today>>

updateInvoiceResume(r) ==
    /\ req[r].pc = "settled" /\ req[r].kind = "updateInvoice"
    /\ req' = [req EXCEPT ![r] =
                 Done(req[r], Caught(req[r]) \o <<"revalidatePath", "redirect">>,
                      "redirect")]
    /\ stale' = stale \cup {Path}
    /\ UNCHANGED <<rows, nextId, lastStmt, today>>

\* The await wrapped in the try/catch of the other handlers.
deleteInvoiceResumeCaught(r) ==
    /\ req[r].pc = "settled" /\ req[r].kind = "deleteInvoice"
    /\ req' = [req EXCEPT ![r] =
                 Done(req[r], Caught(req[r]) \o <<"revalidatePath">>, "return")]
    /\ stale' = stale \cup {Path}
    /\ UNCHANGED <<rows, nextId, lastStmt, today>>

deleteInvoiceResume(r) ==
    /\ req[r].pc = "settled" /\ req[r].kind = "deleteInvoice"
    /\ IF req[r].result = "error"
       THEN /\ req' = [req EXCEPT ![r] = Done(req[r], <<>>, "PostgresError")]
            /\ stale' = stale
       ELSE /\ req' = [req EXCEPT ![r] =
                         Done(req[r], <<"revalidatePath">>, "return")]
            /\ stale' = stale \cup {Path}
    /\ UNCHANGED <<rows, nextId, lastStmt, today>>

(***************************************************************************)
(* The surroundings.  The framework takes a finished handler's outcome;    *)
(* after a redirect or a normal return the listing is rendered again.      *)
(* The date changes.                                                       *)
(***************************************************************************)
Respond(r) ==
    /\ req[r].pc = "done"
    /\ req' = [req EXCEPT ![r] = Idle]
    /\ lastStmt' = [i \in Ids |-> IF lastStmt[i] = r THEN 0 ELSE lastStmt[i]]
    /\ stale' = IF req[r].outcome \in {"redirect", "return"} THEN {} ELSE stale
    /\ UNCHANGED <<rows, nextId, today>>

Midnight ==
    /\ today < MaxDay
    /\ today' = today + 1
    /\ UNCHANGED <<rows, nextId, lastStmt, stale, req>>

\* Requests one after another: every handler, on every form.
Single == {r \in Requests : r = 1}

Next ==
    \/ \E r \in Single :
         \/ createInvoice1(r, Forms)
         \/ createInvoice(r, Forms)
         \/ updateInvoice(r, Forms)
         \/ deleteInvoice(r)
         \/ SqlRun(r)
         \/ SqlFail(r)
         \/ createInvoice1Resume(r)
         \/ createInvoiceResume(r)
         \/ updateInvoiceResume(r)
         \/ deleteInvoiceResume(r)
         \/ Respond(r)
    \/ Midnight

Spec == Init /\ [][Next]_vars

\* Overlapping updateInvoice and deleteInvoice requests on a table that holds
\* one invoice, created from FormB on the first day.
InitConc ==
    /\ rows = SqlInsert({}, 1, FormB.customerId,
                        AmountInCents(ToNumber(Get(FormB, "amount"))),
                        FormB.status, 1)
    /\ nextId = 2
    /\ lastStmt = [i \in Ids |-> 0]
    /\ today = 1
    /\ stale = {}
    /\ req = [r \in Requests |-> Idle]

NextConc ==
    \/ \E r \in Requests :
         \/ updateInvoice(r, TwoForms)
         \/ deleteInvoice(r)
         \/ SqlRun(r)
         \/ SqlFail(r)
         \/ updateInvoiceResume(r)
         \/ deleteInvoiceResume(r)
         \/ Respond(r)
    \/ Midnight

SpecConc == InitConc /\ [][NextConc]_vars

(***************************************************************************)
(* Properties.                                                             *)
(***************************************************************************)
Validating == {"createInvoice1", "createInvoice", "updateInvoice"}

\* The second definition of createInvoice, and updateInvoice.
Current == {"createInvoice", "updateInvoice"}

Fields == {"customerId", "amount", "status"}

\* The decimal a form's amount stands for; a form without amount has 0.
AmountOf(form) ==
    IF "amount" \in DOMAIN form THEN Decimal(form.amount)
    ELSE [ok |-> TRUE, n |-> 0, k |-> 0]

\* round(a * 100) of the decimal a = n / 10^k, halves up.
RoundedCents(a) == (2 * 100 * a.n + Pow10(a.k)) \div (2 * Pow10(a.k))

\* a * 100, the amount in cents, as the nearest number.
InCents(a) == DecimalToDouble(100 * a.n, a.k)

\* Request r ran the step from pc value from to pc value to.
Stepped(r, from, to) == req[r].pc = from /\ req'[r].pc = to

\* Every b in trace t has an a before it.
Before(t, a, b) ==
    \A j \in 1..Len(t) : t[j] \in b => \E i \in 1..(j - 1) : t[i] \in a

Count(t, e) == Cardinality({i \in 1..Len(t) : t[i] = e})

\* C1: in createInvoice (every definition) and updateInvoice, a failed store
\* statement is logged, nothing is thrown, and revalidatePath and redirect
\* still run.
C1_StoreFailureIsCaught ==
    \A r \in Requests :
        (req[r].kind \in Validating /\ req[r].pc = "done"
           /\ req[r].result = "error")
        => /\ req[r].outcome = "redirect"
           /\ req[r].trace = <<"parse", "sql", "error", "console.error",
                                "revalidatePath", "redirect">>

\* C2: the amount handed to the store by createInvoice and updateInvoice is
\* the integer round(a * 100) of the validated input amount a.
C2_AmountIsRoundedCents ==
    \A r \in Requests :
        (req[r].kind \in Current /\ req[r].pc # "idle"
           /\ req[r].issues = {})
        => /\ IsInteger(req[r].amountInCents)
           /\ req[r].amountInCents
                = IntToDouble(RoundedCents(AmountOf(req[r].form)))

\* C3: a form that lacks customerId, amount or status, or whose amount is
\* no number, makes the handler end with the validation error and nothing
\* else: no statement, no revalidatePath, no redirect.
C3_MissingFieldIsRejected ==
    \A r \in Requests :
        (req[r].kind \in Current /\ req[r].pc # "idle"
           /\ (Fields \ DOMAIN req[r].form # {} \/ ~AmountOf(req[r].form).ok))
        => /\ req[r].pc = "done"
           /\ req[r].outcome = "ZodError"
           /\ req[r].trace = <<"parse">>

\* The form holds a status, and it is one of the two literals.
C4_StatusAccepted(form) ==
    "status" \in DOMAIN form /\ (form.status = "pending" \/ form.status = "paid")

\* C4: status is accepted exactly when it is "pending" or "paid"; with any
\* other status the handler ends in the validation error before any
\* statement, and no step of that request changes the table.
C4_StatusEnum ==
    /\ [](\A r \in Requests :
            (req[r].kind \in Validating /\ req[r].pc # "idle")
            => /\ "status" \in req[r].issues <=> ~C4_StatusAccepted(req[r].form)
               /\ ~C4_StatusAccepted(req[r].form)
                    => /\ req[r].pc = "done"
                       /\ req[r].outcome = "ZodError"
                       /\ req[r].trace = <<"parse">>)
    /\ [][\A r \in Requests :
            (req'[r] # req[r] /\ req'[r].kind \in Validating
               /\ ~C4_StatusAccepted(req'[r].form))
            => rows' = rows]_vars

C4_Witness ==
    \E r \in Requests :
        /\ req[r].kind = "updateInvoice" /\ req[r].pc = "done"
        /\ req[r].form = [FormA EXCEPT !.status = "overdue"]
        /\ rows # {}

\* C5: when the delete statement fails, deleteInvoice ends with the store's
\* error thrown: nothing is logged, revalidatePath does not run, there is no
\* normal return.
C5_DeleteFailurePropagates ==
    \A r \in Requests :
        (req[r].kind = "deleteInvoice" /\ req[r].pc = "done"
           /\ req[r].result = "error")
        => /\ req[r].outcome = "PostgresError"
           /\ req[r].trace = <<"sql", "error">>

C5_Witness ==
    \E r \in Requests :
        /\ req[r].kind = "deleteInvoice" /\ req[r].pc = "done"
        /\ req[r].result = "error" /\ HasRow(req[r].id)

\* Request r's statement ran without error in this step.
Ran(r) == Stepped(r, "awaiting", "settled") /\ req'[r].result = "ok"

\* A complete form that passed validation.
Complete(r) == DOMAIN req[r].form = Fields /\ req[r].issues = {}

\* C6: createInvoice on a valid form {customerId: c, amount: a, status: s}
\* with a store that does not fail adds exactly one row, with a fresh id,
\* customer_id = c, amount = a in cents, status = s and the date of the
\* call, leaves every other row as it was, marks the listing stale and ends
\* in the redirect.
C6_CreateInsertsForm ==
    /\ [][\A r \in Requests :
            (req[r].kind = "createInvoice" /\ Complete(r) /\ Ran(r))
            => \E row \in rows' \ rows :
                 /\ rows' = rows \cup {row}
                 /\ \A old \in rows : old.id # row.id
                 /\ row.customer_id = req[r].form.customerId
                 /\ row.amount = InCents(AmountOf(req[r].form))
                 /\ row.status = req[r].form.status
                 /\ row.date = req[r].date]_vars
    /\ [][\A r \in Requests :
            (Stepped(r, "idle", "awaiting") /\ req'[r].kind = "createInvoice")
            => req'[r].date = today]_vars
    /\ [][\A r \in Requests :
            (req[r].kind = "createInvoice" /\ Stepped(r, "settled", "done"))
            => Path \in stale']_vars
    /\ [](\A r \in Requests :
            (req[r].kind = "createInvoice" /\ req[r].pc = "done"
               /\ req[r].result = "ok")
            => /\ req[r].outcome = "redirect"
               /\ req[r].trace = <<"parse", "sql", "ok", "revalidatePath",
                                    "redirect">>)

\* C7: updateInvoice(id, form) on a valid form with a store that does not
\* fail changes only the rows with that id, sets their customer_id, amount
\* (in cents) and status to the form's values and keeps their id and date;
\* with no such row the table is unchanged and the handler still ends in the
\* redirect.
C7_UpdateSetsForm ==
    /\ [][\A r \in Requests :
            (req[r].kind = "updateInvoice" /\ Complete(r) /\ Ran(r))
            => /\ \A row \in rows : row.id # req[r].id => row \in rows'
               /\ \A row \in rows :
                    row.id = req[r].id
                    => [id          |-> row.id,
                        customer_id |-> req[r].form.customerId,
                        amount      |-> InCents(AmountOf(req[r].form)),
                        status      |-> req[r].form.status,
                        date        |-> row.date] \in rows'
               /\ Cardinality(rows') = Cardinality(rows)
               /\ ~HasRow(req[r].id) => rows' = rows]_vars
    /\ [](\A r \in Requests :
            (req[r].kind = "updateInvoice" /\ req[r].pc = "done"
               /\ req[r].result = "ok")
            => req[r].outcome = "redirect")

\* C8: deleteInvoice(id) with a store that does not fail removes every row
\* with that id and no other row, whether or not such a row existed, marks
\* the listing stale and returns normally, without a redirect.
C8_DeleteRemovesRow ==
    /\ [][\A r \in Requests :
            (req[r].kind = "deleteInvoice" /\ Ran(r))
            => /\ \A row \in rows' : row.id # req[r].id
               /\ \A row \in rows : row.id # req[r].id => row \in rows'
               /\ rows' \subseteq rows]_vars
    /\ [][\A r \in Requests :
            (req[r].kind = "deleteInvoice" /\ Stepped(r, "settled", "done")
               /\ req[r].result = "ok")
            => Path \in stale']_vars
    /\ [](\A r \in Requests :
            (req[r].kind = "deleteInvoice" /\ req[r].pc = "done"
               /\ req[r].result = "ok")
            => /\ ~HasRow(req[r].id)
               /\ req[r].outcome = "return"
               /\ req[r].trace = <<"sql", "ok", "revalidatePath">>)

\* The request deleted a row that existed, and another row is still there.
C8_Witness ==
    \E r \in Requests :
        /\ req[r].kind = "deleteInvoice" /\ req[r].pc = "done"
        /\ req[r].result = "ok" /\ lastStmt[req[r].id] = r
        /\ rows # {}

\* C9: in every request each event happens at most once and in this order:
\* parse, the one statement, its completion, revalidatePath, redirect; the
\* redirect is the handler's last action, and deleteInvoice has neither
\* parse nor redirect.
C9_Order ==
    \A r \in Requests :
        LET t == req[r].trace
        IN  /\ \A i, j \in 1..Len(t) : t[i] = t[j] => i = j
            /\ Count(t, "ok") + Count(t, "error") <= 1
            /\ (req[r].kind \in Validating /\ Len(t) > 0) => t[1] = "parse"
            /\ Before(t, {"sql"}, {"ok", "error"})
            /\ Before(t, {"ok", "error"}, {"console.error", "revalidatePath"})
            /\ Before(t, {"revalidatePath"}, {"redirect"})
            /\ \A j \in 1..Len(t) :
                 t[j] = "redirect" => j = Len(t) /\ req[r].pc = "done"
            /\ req[r].kind = "deleteInvoice"
                 => Count(t, "redirect") = 0 /\ Count(t, "parse") = 0
            /\ (req[r].kind \in Validating /\ req[r].pc = "done"
                  /\ req[r].outcome = "redirect")
                 => Count(t, "redirect") = 1

C9_Witness ==
    \E r \in Requests :
        /\ req[r].kind = "updateInvoice" /\ req[r].pc = "done"
        /\ req[r].trace = <<"parse", "sql", "ok", "revalidatePath", "redirect">>

\* Two finished updateInvoice requests on the same invoice, which is still
\* there, both statements run, one of them the last to change the row.
C10_Pair(r1, r2) ==
    /\ r1 # r2
    /\ \A r \in {r1, r2} :
         /\ req[r].kind = "updateInvoice" /\ req[r].pc = "done"
         /\ req[r].result = "ok" /\ req[r].id = req[r1].id
    /\ HasRow(req[r1].id)
    /\ lastStmt[req[r1].id] \in {r1, r2}

\* C10: two updateInvoice requests on the same existing invoice, both
\* statements run and both handlers finished: the row holds the whole
\* (customer_id, amount, status) of the request whose statement ran last,
\* its date is the one it had, and both requests ended in revalidatePath and
\* redirect.
C10_LastWriterWins ==
    /\ [](\A r1, r2 \in Requests :
            C10_Pair(r1, r2)
            => LET last == req[lastStmt[req[r1].id]]
               IN  /\ \A row \in rows :
                        row.id = req[r1].id
                        => /\ row.customer_id = last.data.customerId
                           /\ row.amount = last.amountInCents
                           /\ row.status = last.data.status
                   /\ \A r \in {r1, r2} :
                        /\ req[r].outcome = "redirect"
                        /\ Count(req[r].trace, "revalidatePath") = 1)
    /\ [][\A row \in rows : \A new \in rows' :
            new.id = row.id => new.date = row.date]_vars

C10_Witness ==
    \E r1, r2 \in Requests :
        /\ C10_Pair(r1, r2)
        /\ req[r1].form # req[r2].form
        /\ today > 1
====
